---- MODULE Spec2Model ----
(***************************************************************************)
(* Rider backend: the income service (withdrawals against a balance        *)
(* computed from delivered orders), the orders service's status update,    *)
(* the JSON data store with its whole-file cache, and the HTTP boundary    *)
(* (validator + controller) of the withdraw endpoints.                     *)
(*                                                                         *)
(* Money is counted in mills (1/1000 of a currency unit), so that          *)
(* Number.prototype.toFixed(2) is a real rounding and not the identity:    *)
(* 25.50 is 25500, one cent is 10.  Binary floating point is not           *)
(* modelled: sums are exact decimals.                                      *)
(*                                                                         *)
(* Time is the clock read by Date.now() and new Date(); a handler runs at  *)
(* one clock reading.  null timestamps are NullTime.  The withdrawalId     *)
(* `WD${Date.now()}` is modelled by its clock reading (the string is an    *)
(* injective image of it).  For the reports that bucket by calendar date   *)
(* the readings lie on a grid of TicksPerDay readings per day, reading 0   *)
(* being 2025-01-01T00:00Z, and the process runs in UTC.                   *)
(*                                                                         *)
(* Seven specifications share the variables: Spec (the income and order    *)
(* updates on a writable data directory), SpecResolve (Spec with direct    *)
(* status updates restricted to completed and rejected), SpecRace          *)
(* (withdraw requests arriving while another is being handled),            *)
(* SpecReports (the read-only reports over dated orders), SpecOrders       *)
(* (orders of all five statuses), SpecFaults (writes that can fail and     *)
(* files that cannot be parsed) and SpecStore (the data store alone).      *)
(*                                                                         *)
(* Not modelled: the KPI log (kpi.service, an append-only CSV no           *)
(* operation reads back), riderId, the lastUpdated/updatedAt stamps and    *)
(* the free-text order fields.                                             *)
(***************************************************************************)
EXTENDS Integers, Sequences, FiniteSets, TLC

VARIABLES
  now,    \* the process clock
  cache,  \* DataStore.cache: file name -> cached document (NoDoc: no entry)
  disk,   \* the data directory: file name -> document (NoDoc: no such file)
  inflight \* the withdraw requests received, in order of arrival, each with
           \* the position of its handler

vars == <<now, cache, disk, inflight>>

----------------------------------------------------------------------------
(* Bounds of the model *)

\* the clock stops advancing at MaxTime
MaxTime == 2
\* submitWithdrawal is not called once the collection holds this many
MaxWithdrawals == 2
\* completions are not attempted once totalWithdrawn exceeds this many
\* currency units
MaxWithdrawnUnits == 10

----------------------------------------------------------------------------
(* Values *)

Dollars(n) == n * 1000
Cents(n) == n * 10

NullTime == 0 - 1
NoDoc == [none |-> TRUE]

OrdersFile == "rider.orders.json"
IncomeFile == "rider.income.json"
Files == {OrdersFile, IncomeFile}

OrderStatuses == {"assigned", "picked_up", "in_transit", "delivered", "cancelled"}

\* Number.prototype.toFixed(2) followed by parseFloat: the nearest cent,
\* ties away from zero
toFixed2(x) ==
  IF x >= 0 THEN ((x + 5) \div 10) * 10
  ELSE 0 - (((0 - x) + 5) \div 10) * 10

----------------------------------------------------------------------------
(* services/data.store.js *)

read_BadCachesDefaultValue(c, d, filename, defaultValue) ==
  IF c[filename] # NoDoc
    THEN [data |-> c[filename], cache |-> c, shared |-> TRUE,
          threw |-> FALSE]
  ELSE IF d[filename] \in {NoDoc, [unreadable |-> TRUE]}
    THEN [data |-> defaultValue, cache |-> c, shared |-> FALSE,
          threw |-> FALSE]
  ELSE [data |-> d[filename],
        cache |-> [c EXCEPT ![filename] = defaultValue],
        shared |-> FALSE, threw |-> FALSE]

\* a file that exists and whose readFileSync or JSON.parse throws
Unreadable == [unreadable |-> TRUE]

\* DataStore.read: the cached object if there is one; the default value if
\* the file does not exist (the default is NOT cached); the default value
\* again when reading or parsing the file throws (the catch returns it);
\* else the parsed file, which is cached.  shared tells whether the caller
\* holds the very object the cache holds (so that mutating it mutates the
\* cache); threw tells whether the call ended in an exception instead of a
\* return value, which no branch does.
read(c, d, filename, defaultValue) ==
  IF c[filename] # NoDoc
    THEN [data |-> c[filename], cache |-> c, shared |-> TRUE,
          threw |-> FALSE]
  ELSE IF d[filename] = NoDoc
    THEN [data |-> defaultValue, cache |-> c, shared |-> FALSE,
          threw |-> FALSE]
  ELSE IF d[filename] = Unreadable
    THEN [data |-> defaultValue, cache |-> c, shared |-> FALSE,
          threw |-> FALSE]
  ELSE [data |-> d[filename],
        cache |-> [c EXCEPT ![filename] = d[filename]],
        shared |-> TRUE, threw |-> FALSE]

write_BadLeavesCacheEntry(c, d, filename, data, fsOk) ==
  IF fsOk
    THEN [ok |-> TRUE, cache |-> c, disk |-> [d EXCEPT ![filename] = data]]
    ELSE [ok |-> FALSE, cache |-> c, disk |-> d]

\* DataStore.write: on success the file and the cache entry are replaced by
\* data; on failure (fsOk = FALSE: writeFileSync threw) neither is touched
\* and false is returned.
write(c, d, filename, data, fsOk) ==
  IF fsOk
    THEN [ok |-> TRUE,
          cache |-> [c EXCEPT ![filename] = data],
          disk |-> [d EXCEPT ![filename] = data]]
    ELSE [ok |-> FALSE, cache |-> c, disk |-> d]

\* DataStore.delete: an existing file is unlinked and then its cache entry
\* is dropped; when unlinkSync throws (fsOk = FALSE) the catch returns false
\* with the file and the cache entry as they were; a missing file gives
\* false and leaves the cache alone.
delete(c, d, filename, fsOk) ==
  IF d[filename] = NoDoc \/ ~fsOk
    THEN [ok |-> FALSE, cache |-> c, disk |-> d]
    ELSE [ok |-> TRUE,
          cache |-> [c EXCEPT ![filename] = NoDoc],
          disk |-> [d EXCEPT ![filename] = NoDoc]]

\* the outcomes of fs.writeFileSync: the data directory is writable
WriteOutcomes == {TRUE}

\* A caller that mutated the object read() gave it has mutated the cache
\* entry when the two are the same object.
mutateShared(r, c, filename, data) ==
  IF r.shared THEN [c EXCEPT ![filename] = data] ELSE c

----------------------------------------------------------------------------
(* services/orders.service.js *)

\* OrdersService.getAllOrders
getAllOrders(c, d) ==
  LET r == read(c, d, OrdersFile, [orders |-> <<>>])
  IN [orders |-> r.data.orders, cache |-> r.cache, shared |-> r.shared,
      threw |-> r.threw]

\* findIndex(o => o.orderId === orderId); 0 stands for -1
RECURSIVE orderIndexFrom(_, _, _)
orderIndexFrom(orders, orderId, i) ==
  IF i > Len(orders) THEN 0
  ELSE IF orders[i].orderId = orderId THEN i
  ELSE orderIndexFrom(orders, orderId, i + 1)

\* OrdersService.updateOrderStatus: null if there is no such order; else
\* the status is set, deliveredAt is stamped when the new status is
\* delivered, and the whole document is written.
updateOrderStatus(c, d, t, orderId, newStatus, fsOk) ==
  LET r == read(c, d, OrdersFile, [orders |-> <<>>])
      orders == r.data.orders
      i == orderIndexFrom(orders, orderId, 1)
  IN IF i = 0
       THEN [found |-> FALSE, value |-> NoDoc, cache |-> r.cache, disk |-> d]
       ELSE LET o1 == [orders[i] EXCEPT !.status = newStatus]
                o2 == IF newStatus = "delivered"
                        THEN [o1 EXCEPT !.deliveredAt = t] ELSE o1
                data == [orders |-> [orders EXCEPT ![i] = o2]]
                w == write(mutateShared(r, r.cache, OrdersFile, data), d,
                           OrdersFile, data, fsOk)
            IN [found |-> TRUE, value |-> o2, cache |-> w.cache, disk |-> w.disk]

----------------------------------------------------------------------------
(* services/income.service.js *)

\* the default document of IncomeService.getIncomeData
DefaultIncome == [withdrawals |-> <<>>, totalWithdrawn |-> 0]

\* IncomeService.getIncomeData
getIncomeData(c, d) == read(c, d, IncomeFile, DefaultIncome)

\* the forEach of getRealTimeIncome: deliveryFee summed over the delivered
\* orders
RECURSIVE sumDelivered_BadCountsCancelled(_)
sumDelivered_BadCountsCancelled(orders) ==
  IF orders = <<>> THEN 0
  ELSE (IF Head(orders).status \in {"delivered", "cancelled"}
          THEN Head(orders).deliveryFee ELSE 0)
       + sumDelivered_BadCountsCancelled(Tail(orders))

RECURSIVE sumDelivered(_)
sumDelivered(orders) ==
  IF orders = <<>> THEN 0
  ELSE (IF Head(orders).status = "delivered" THEN Head(orders).deliveryFee ELSE 0)
       + sumDelivered(Tail(orders))

\* withdrawals.filter(w => w.status === status)
filterByStatus(ws, status) == SelectSeq(ws, LAMBDA w : w.status = status)

\* IncomeService.getPendingWithdrawalsCount
getPendingWithdrawalsCount(c, d) ==
  Len(filterByStatus(getIncomeData(c, d).data.withdrawals, "pending"))

\* availableBalance as getRealTimeIncome computes it, before rounding
rawBalance_BadIgnoresWithdrawn(totalEarnings, totalWithdrawn) == totalEarnings

rawBalance(totalEarnings, totalWithdrawn) == totalEarnings - totalWithdrawn

\* IncomeService.getRealTimeIncome: the snapshot, and the cache after the
\* reads it makes.  (The today/week/month windows, which enter no
\* balance, are getRealTimeIncomeWindows.)
getRealTimeIncome(c, d) ==
  LET o == getAllOrders(c, d)
      r == getIncomeData(o.cache, d)
      totalEarnings == sumDelivered(o.orders)
      availableBalance == rawBalance(totalEarnings, r.data.totalWithdrawn)
  IN [snapshot |->
        [totalEarnings |-> toFixed2(totalEarnings),
         totalWithdrawn |-> toFixed2(r.data.totalWithdrawn),
         availableBalance |-> toFixed2(availableBalance),
         pendingWithdrawals |-> getPendingWithdrawalsCount(r.cache, d)],
      cache |-> r.cache]

ErrInvalidAmount == "Withdrawal amount must be greater than 0"
ErrInsufficient == "Insufficient balance for withdrawal"

\* the withdrawal record submitWithdrawal creates at clock reading t
newWithdrawal_BadKeepsRawAmount(amount, accountInfo, t) ==
  [withdrawalId |-> t, amount |-> amount, accountInfo |-> accountInfo,
   status |-> "pending", requestedAt |-> t, processedAt |-> NullTime,
   notes |-> ""]

newWithdrawal(amount, accountInfo, t) ==
  [withdrawalId |-> t, amount |-> toFixed2(amount), accountInfo |-> accountInfo,
   status |-> "pending", requestedAt |-> t, processedAt |-> NullTime,
   notes |-> ""]

\* the two guards of submitWithdrawal, in the order of the code: the error
\* thrown, or "" when the amount is accepted
submitGuard_BadNoBalanceCheck(amount, availableBalance) ==
  IF amount <= 0 THEN ErrInvalidAmount ELSE ""

submitGuard(amount, availableBalance) ==
  IF amount <= 0 THEN ErrInvalidAmount
  ELSE IF amount > availableBalance THEN ErrInsufficient
  ELSE ""

\* IncomeService.submitWithdrawal at clock reading t.  threw: an Error with
\* message `error` was thrown; else value is the withdrawal returned.
submitWithdrawal(c, d, t, amount, accountInfo, fsOk) ==
  LET r == getIncomeData(c, d)
      rt == getRealTimeIncome(r.cache, d)
      err == submitGuard(amount, rt.snapshot.availableBalance)
  IN IF err # ""
       THEN [threw |-> TRUE, error |-> err, value |-> NoDoc,
             cache |-> rt.cache, disk |-> d]
       ELSE LET w == newWithdrawal(amount, accountInfo, t)
                data == [r.data EXCEPT !.withdrawals = Append(@, w)]
                wr == write(mutateShared(r, rt.cache, IncomeFile, data), d,
                            IncomeFile, data, fsOk)
            IN [threw |-> FALSE, error |-> "", value |-> w,
                cache |-> wr.cache, disk |-> wr.disk]

\* Array.prototype.sort with (a, b) => new Date(b.requestedAt) -
\* new Date(a.requestedAt): newest first, stable
RECURSIVE insertNewestFirst(_, _)
insertNewestFirst(acc, x) ==
  IF acc = <<>> THEN <<x>>
  ELSE IF Head(acc).requestedAt >= x.requestedAt
    THEN <<Head(acc)>> \o insertNewestFirst(Tail(acc), x)
  ELSE <<x>> \o acc

RECURSIVE sortNewestFirstFrom(_, _)
sortNewestFirstFrom(acc, ws) ==
  IF ws = <<>> THEN acc
  ELSE sortNewestFirstFrom(insertNewestFirst(acc, Head(ws)), Tail(ws))

sortNewestFirst(ws) == sortNewestFirstFrom(<<>>, ws)

\* IncomeService.getWithdrawalRecords: filter() makes a new array, so the
\* sort is in place on the document's own array only for status 'all'.
getWithdrawalRecords(c, d, status) ==
  LET r == getIncomeData(c, d)
      sorted == sortNewestFirst(IF status # "all"
                                  THEN filterByStatus(r.data.withdrawals, status)
                                  ELSE r.data.withdrawals)
  IN [value |-> sorted,
      cache |-> IF status # "all" THEN r.cache
                ELSE mutateShared(r, r.cache, IncomeFile,
                                  [r.data EXCEPT !.withdrawals = sorted])]

withdrawalIndexFrom_BadDefaultsToFirst(ws, withdrawalId, i) ==
  IF \E k \in i .. Len(ws) : ws[k].withdrawalId = withdrawalId
    THEN CHOOSE k \in i .. Len(ws) :
           /\ ws[k].withdrawalId = withdrawalId
           /\ \A j \in i .. k - 1 : ws[j].withdrawalId # withdrawalId
  ELSE IF Len(ws) > 0 THEN 1
  ELSE 0

\* findIndex(w => w.withdrawalId === withdrawalId); 0 stands for -1
RECURSIVE withdrawalIndexFrom(_, _, _)
withdrawalIndexFrom(ws, withdrawalId, i) ==
  IF i > Len(ws) THEN 0
  ELSE IF ws[i].withdrawalId = withdrawalId THEN i
  ELSE withdrawalIndexFrom(ws, withdrawalId, i + 1)

\* the totalWithdrawn that updateWithdrawalStatus leaves
withdrawnAfter_BadCountsRejected(totalWithdrawn, amount, newStatus) ==
  IF newStatus \in {"completed", "rejected"}
    THEN totalWithdrawn + amount ELSE totalWithdrawn

withdrawnAfter_BadAddsTwice(totalWithdrawn, amount, newStatus) ==
  IF newStatus = "completed" THEN totalWithdrawn + amount + amount
  ELSE totalWithdrawn

withdrawnAfter(totalWithdrawn, amount, newStatus) ==
  IF newStatus = "completed" THEN totalWithdrawn + amount ELSE totalWithdrawn

updateWithdrawalStatus_BadRestampsRequest(c, d, t, withdrawalId, newStatus, notes, fsOk) ==
  LET r == getIncomeData(c, d)
      ws == r.data.withdrawals
      i == withdrawalIndexFrom(ws, withdrawalId, 1)
  IN IF i = 0
       THEN [found |-> FALSE, value |-> NoDoc, cache |-> r.cache, disk |-> d]
       ELSE LET w == [ws[i] EXCEPT !.status = newStatus,
                                   !.processedAt = t,
                                   !.requestedAt = t,
                                   !.notes = notes]
                data == [withdrawals |-> [ws EXCEPT ![i] = w],
                         totalWithdrawn |->
                           withdrawnAfter(r.data.totalWithdrawn, w.amount, newStatus)]
                wr == write(mutateShared(r, r.cache, IncomeFile, data), d,
                            IncomeFile, data, fsOk)
            IN [found |-> TRUE, value |-> w, cache |-> wr.cache, disk |-> wr.disk]

\* IncomeService.updateWithdrawalStatus at clock reading t: null when no
\* withdrawal has the id; else the first withdrawal that has it gets the
\* new status, processedAt and notes, whatever its present status is.
updateWithdrawalStatus(c, d, t, withdrawalId, newStatus, notes, fsOk) ==
  LET r == getIncomeData(c, d)
      ws == r.data.withdrawals
      i == withdrawalIndexFrom(ws, withdrawalId, 1)
  IN IF i = 0
       THEN [found |-> FALSE, value |-> NoDoc, cache |-> r.cache, disk |-> d]
       ELSE LET w == [ws[i] EXCEPT !.status = newStatus,
                                   !.processedAt = t,
                                   !.notes = notes]
                data == [withdrawals |-> [ws EXCEPT ![i] = w],
                         totalWithdrawn |->
                           withdrawnAfter(r.data.totalWithdrawn, w.amount, newStatus)]
                wr == write(mutateShared(r, r.cache, IncomeFile, data), d,
                            IncomeFile, data, fsOk)
            IN [found |-> TRUE, value |-> w, cache |-> wr.cache, disk |-> wr.disk]

----------------------------------------------------------------------------
(* validators/income.validators.js, middleware/error.middleware.js,        *)
(* controllers/income.controller.js                                        *)

minWithdrawal == 10
maxWithdrawal == 10000

\* isValidDecimalPlaces(num, 2): at most two digits after the point
isValidDecimalPlaces2(amount) == amount % 10 = 0

\* validateWithdrawalRequest for a numeric amount: the error of the 400
\* response it sends, or "" when it calls next()
validateWithdrawalRequest_BadNoMinimum(amount) ==
  IF amount <= 0 THEN "Invalid amount"
  ELSE IF ~isValidDecimalPlaces2(amount) THEN "Invalid amount format"
  ELSE IF amount > Dollars(maxWithdrawal) THEN "Amount too high"
  ELSE ""

validateWithdrawalRequest(amount) ==
  IF amount <= 0 THEN "Invalid amount"
  ELSE IF ~isValidDecimalPlaces2(amount) THEN "Invalid amount format"
  ELSE IF amount < Dollars(minWithdrawal) THEN "Amount too low"
  ELSE IF amount > Dollars(maxWithdrawal) THEN "Amount too high"
  ELSE ""

\* errorHandler: the error type reported for a status code
errorType(statusCode) ==
  CASE statusCode = 400 -> "ValidationError"
    [] statusCode = 401 -> "AuthenticationError"
    [] statusCode = 403 -> "AuthorizationError"
    [] statusCode = 404 -> "NotFoundError"
    [] statusCode = 409 -> "ConflictError"
    [] statusCode = 422 -> "UnprocessableEntityError"
    [] OTHER -> "ServerError"

\* what a call returned to its caller.  status is the HTTP status code (0
\* for a direct call of the service), entered tells whether the income
\* service was called at all.
Response(status, error, message, value, entered) ==
  [status |-> status, error |-> error, message |-> message,
   value |-> value, entered |-> entered]

\* POST /api/rider/income/withdraw: validateWithdrawalRequest, then the
\* controller's submitWithdrawal, whose catch turns every Error of the
\* service into validationError(error.message), a 400.
postWithdraw(c, d, t, amount, accountInfo, fsOk) ==
  LET verr == validateWithdrawalRequest(amount)
  IN IF verr # ""
       THEN [response |-> Response(400, verr, verr, NoDoc, FALSE),
             cache |-> c, disk |-> d]
       ELSE LET s == submitWithdrawal(c, d, t, toFixed2(amount), accountInfo, fsOk)
            IN [response |->
                  IF s.threw
                    THEN Response(400, errorType(400), s.error, NoDoc, TRUE)
                    ELSE Response(201, "", "", s.value, TRUE),
                cache |-> s.cache, disk |-> s.disk]

\* the controller's validStatuses
validStatuses == {"completed", "rejected"}

putWithdrawStatus_BadNoStatusCheck(c, d, t, withdrawalId, status, notes, fsOk) ==
  LET u == updateWithdrawalStatus(c, d, t, withdrawalId, status, notes, fsOk)
  IN [response |->
        IF ~u.found
          THEN Response(404, errorType(404), "Withdrawal request not found",
                        NoDoc, TRUE)
          ELSE Response(200, "", "", u.value, TRUE),
      cache |-> u.cache, disk |-> u.disk]

\* PUT /api/rider/income/withdraw/:withdrawalId: the controller's
\* updateWithdrawalStatus (validateWithdrawalId passes every route
\* parameter, which is a non-empty string).
putWithdrawStatus(c, d, t, withdrawalId, status, notes, fsOk) ==
  IF status \notin validStatuses
    THEN [response |-> Response(400, errorType(400),
                                "Status must be one of: completed, rejected",
                                NoDoc, FALSE),
          cache |-> c, disk |-> d]
    ELSE LET u == updateWithdrawalStatus(c, d, t, withdrawalId, status, notes, fsOk)
         IN [response |->
               IF ~u.found
                 THEN Response(404, errorType(404), "Withdrawal request not found",
                               NoDoc, TRUE)
                 ELSE Response(200, "", "", u.value, TRUE),
             cache |-> u.cache, disk |-> u.disk]

----------------------------------------------------------------------------
(* The inputs the callers choose from *)

\* the amounts of direct calls: -1.00, 0, 9.996 and 10000.01
Amounts ==
  {0 - Dollars(1), 0, Dollars(10) - 4, Dollars(maxWithdrawal) + Cents(1)}

\* the amounts of request bodies: 0, 9.99, 10.00, 10.006 and 10000.01
BodyAmounts ==
  {0, Cents(999), Dollars(minWithdrawal), Dollars(10) + 6,
   Dollars(maxWithdrawal) + Cents(1)}

AccountInfo == "Test Bank Account: **** 9999"

\* a withdrawalId is the clock reading of its creation; some of these
\* match no withdrawal
WithdrawalIds == 1 .. MaxTime + 1

\* the statuses a caller passes to updateWithdrawalStatus; pending is one
\* outside {completed, rejected}
NewStatuses == {"completed", "rejected", "pending"}

ProcessingNotes == "processed"

RecordFilters == {"all", "pending", "completed", "rejected"}

\* the orders whose status callers update; ORD999 matches no order
OrderIds == {"ORD001", "ORD999"}

NewOrderStatuses == {"delivered", "cancelled"}

----------------------------------------------------------------------------
(* The state after start-up: an empty cache, the seeded orders file, and   *)
(* an income file that is either absent or holds a document without        *)
(* withdrawals.  The fees sum to 30.508, which is 30.51 when rounded.      *)

SeedOrders ==
  [orders |->
     << [orderId |-> "ORD001", status |-> "delivered",
         deliveryFee |-> Cents(2550) + 4, createdAt |-> 0, deliveredAt |-> 0],
        [orderId |-> "ORD002", status |-> "in_transit",
         deliveryFee |-> Dollars(10) + 4, createdAt |-> 0,
         deliveredAt |-> NullTime],
        [orderId |-> "ORD003", status |-> "delivered",
         deliveryFee |-> Dollars(5) + 4, createdAt |-> 0, deliveredAt |-> 0] >>]

SeedIncome == [withdrawals |-> <<>>, totalWithdrawn |-> 0]

Init ==
  /\ now = 1
  /\ inflight = <<>>
  /\ cache = [f \in Files |-> NoDoc]
  /\ disk \in {[f \in Files |-> IF f = OrdersFile THEN SeedOrders ELSE inc] :
                 inc \in {NoDoc, SeedIncome}}

----------------------------------------------------------------------------
(* What the process holds now, as the services see it *)

\* the income document getIncomeData() returns now
IncomeNow == getIncomeData(cache, disk).data
Withdrawals == IncomeNow.withdrawals
TotalWithdrawn == IncomeNow.totalWithdrawn
\* the snapshot getRealTimeIncome() returns now
SnapshotNow == getRealTimeIncome(cache, disk).snapshot

----------------------------------------------------------------------------
(* Steps: one per call, at the present clock reading *)

\* the clock advances by a millisecond
Tick ==
  /\ now < MaxTime
  /\ now' = now + 1
  /\ UNCHANGED <<cache, disk, inflight>>

\* incomeService.submitWithdrawal(amount, accountInfo), called directly
SubmitWithdrawalStep(amount, fsOk) ==
  LET s == submitWithdrawal(cache, disk, now, amount, AccountInfo, fsOk)
  IN /\ cache' = s.cache
     /\ disk' = s.disk
     /\ UNCHANGED <<now, inflight>>

\* POST /api/rider/income/withdraw with body {amount, accountInfo}
PostWithdrawStep(amount, fsOk) ==
  LET h == postWithdraw(cache, disk, now, amount, AccountInfo, fsOk)
  IN /\ cache' = h.cache
     /\ disk' = h.disk
     /\ UNCHANGED <<now, inflight>>

\* incomeService.updateWithdrawalStatus(id, newStatus, notes), called
\* directly
UpdateWithdrawalStatusStep(id, newStatus, fsOk) ==
  LET u == updateWithdrawalStatus(cache, disk, now, id, newStatus,
                                  ProcessingNotes, fsOk)
  IN /\ cache' = u.cache
     /\ disk' = u.disk
     /\ UNCHANGED <<now, inflight>>

\* PUT /api/rider/income/withdraw/:withdrawalId with body {status, notes}
PutWithdrawStatusStep(id, status, fsOk) ==
  LET h == putWithdrawStatus(cache, disk, now, id, status, ProcessingNotes, fsOk)
  IN /\ cache' = h.cache
     /\ disk' = h.disk
     /\ UNCHANGED <<now, inflight>>

\* ordersService.updateOrderStatus(orderId, newStatus)
UpdateOrderStatusStep(orderId, newStatus, fsOk) ==
  LET u == updateOrderStatus(cache, disk, now, orderId, newStatus, fsOk)
  IN /\ cache' = u.cache
     /\ disk' = u.disk
     /\ UNCHANGED <<now, inflight>>

\* incomeService.getRealTimeIncome(): its reads fill the cache
GetRealTimeIncome ==
  /\ cache' = getRealTimeIncome(cache, disk).cache
  /\ UNCHANGED <<now, disk, inflight>>

\* incomeService.getWithdrawalRecords(status)
GetWithdrawalRecordsStep(status) ==
  /\ cache' = getWithdrawalRecords(cache, disk, status).cache
  /\ UNCHANGED <<now, disk, inflight>>

SubmitWithdrawal ==
  \E amount \in Amounts, fsOk \in WriteOutcomes :
    /\ Len(Withdrawals) < MaxWithdrawals
    /\ SubmitWithdrawalStep(amount, fsOk)

PostWithdraw ==
  \E amount \in BodyAmounts, fsOk \in WriteOutcomes :
    /\ Len(Withdrawals) < MaxWithdrawals
    /\ PostWithdrawStep(amount, fsOk)

UpdateWithdrawalStatus ==
  \E id \in WithdrawalIds, newStatus \in NewStatuses, fsOk \in WriteOutcomes :
    /\ newStatus = "completed" => TotalWithdrawn <= Dollars(MaxWithdrawnUnits)
    /\ UpdateWithdrawalStatusStep(id, newStatus, fsOk)

PutWithdrawStatus ==
  \E id \in WithdrawalIds, status \in NewStatuses, fsOk \in WriteOutcomes :
    /\ status = "completed" => TotalWithdrawn <= Dollars(MaxWithdrawnUnits)
    /\ PutWithdrawStatusStep(id, status, fsOk)

UpdateOrderStatus ==
  \E orderId \in OrderIds, newStatus \in NewOrderStatuses, fsOk \in WriteOutcomes :
    UpdateOrderStatusStep(orderId, newStatus, fsOk)

GetWithdrawalRecords ==
  \E status \in RecordFilters : GetWithdrawalRecordsStep(status)

Next ==
  \/ Tick
  \/ SubmitWithdrawal
  \/ PostWithdraw
  \/ UpdateWithdrawalStatus
  \/ PutWithdrawStatus
  \/ UpdateOrderStatus
  \/ GetRealTimeIncome
  \/ GetWithdrawalRecords

Spec == Init /\ [][Next]_vars

----------------------------------------------------------------------------
(* Properties *)

\* the document in the income file (the default document when there is no
\* file)
PersistedIncome ==
  IF disk[IncomeFile] = NoDoc THEN DefaultIncome ELSE disk[IncomeFile]

RECURSIVE sumCompleted(_)
sumCompleted(ws) ==
  IF ws = <<>> THEN 0
  ELSE (IF Head(ws).status = "completed" THEN Head(ws).amount ELSE 0)
       + sumCompleted(Tail(ws))

\* the withdrawal updateWithdrawalStatus(id, ...) would find now
HasWithdrawal(id) == withdrawalIndexFrom(Withdrawals, id, 1) # 0
WithdrawalOf(id) == Withdrawals[withdrawalIndexFrom(Withdrawals, id, 1)]

IsTerminal(w) == w.status \in {"completed", "rejected"}

\* the income document, and its totalWithdrawn, that getIncomeData() returns
\* after a call that left the cache and the files of res
IncomeAfter(res) == getIncomeData(res.cache, res.disk).data
WithdrawnAfter(res) == IncomeAfter(res).totalWithdrawn

\* C1: in every reachable state the persisted totalWithdrawn equals the sum
\* of amount over the withdrawals whose status is completed.
C1_TotalWithdrawnIsSumOfCompleted ==
  PersistedIncome.totalWithdrawn = sumCompleted(PersistedIncome.withdrawals)

\* C2: a withdrawal that is completed or rejected is terminal:
\* updateWithdrawalStatus(id, completed | rejected) on it, called directly or
\* through the PUT endpoint, does not return it as updated and leaves the
\* income document (its status, totalWithdrawn) as it was.
C2_TerminalIsFinal ==
  [][\A id \in WithdrawalIds, st \in validStatuses :
       (/\ HasWithdrawal(id)
        /\ IsTerminal(WithdrawalOf(id))
        /\ \/ UpdateWithdrawalStatusStep(id, st, TRUE)
           \/ PutWithdrawStatusStep(id, st, TRUE))
       => /\ ~updateWithdrawalStatus(cache, disk, now, id, st,
                                     ProcessingNotes, TRUE).found
          /\ putWithdrawStatus(cache, disk, now, id, st,
                               ProcessingNotes, TRUE).response.status # 200
          /\ IncomeNow' = IncomeNow]_vars

\* C3: the snapshot getRealTimeIncome returns satisfies
\* availableBalance = totalEarnings - totalWithdrawn, in every reachable
\* state.
C3_BalanceIsEarningsMinusWithdrawn ==
  SnapshotNow.availableBalance
    = SnapshotNow.totalEarnings - SnapshotNow.totalWithdrawn

\* a state after a withdrawal was completed while another is pending, where
\* the earnings (30.508) are not a whole number of cents before rounding
C3_Witness ==
  /\ SnapshotNow.totalWithdrawn > 0
  /\ SnapshotNow.pendingWithdrawals > 0
  /\ SnapshotNow.totalEarnings = Cents(3051)
  /\ SnapshotNow.availableBalance = Cents(3051) - SnapshotNow.totalWithdrawn

\* C4: totalWithdrawn changes only in an updateWithdrawalStatus step whose
\* new status is completed: in every reachable state, every other call
\* (submitWithdrawal, updateWithdrawalStatus to rejected or to any other
\* status, updateOrderStatus, the reads), made directly or through its
\* endpoint, leaves totalWithdrawn as it is.
C4_OnlyCompletionChangesWithdrawn ==
  /\ \A a \in Amounts :
       WithdrawnAfter(submitWithdrawal(cache, disk, now, a, AccountInfo, TRUE))
         = TotalWithdrawn
  /\ \A a \in BodyAmounts :
       WithdrawnAfter(postWithdraw(cache, disk, now, a, AccountInfo, TRUE))
         = TotalWithdrawn
  /\ \A id \in WithdrawalIds, st \in NewStatuses \ {"completed"} :
       /\ WithdrawnAfter(updateWithdrawalStatus(cache, disk, now, id, st,
                                                 ProcessingNotes, TRUE))
            = TotalWithdrawn
       /\ WithdrawnAfter(putWithdrawStatus(cache, disk, now, id, st,
                                            ProcessingNotes, TRUE))
            = TotalWithdrawn
  /\ \A o \in OrderIds, st \in NewOrderStatuses :
       WithdrawnAfter(updateOrderStatus(cache, disk, now, o, st, TRUE))
         = TotalWithdrawn
  /\ WithdrawnAfter([cache |-> getRealTimeIncome(cache, disk).cache,
                     disk |-> disk]) = TotalWithdrawn
  /\ \A f \in RecordFilters :
       WithdrawnAfter([cache |-> getWithdrawalRecords(cache, disk, f).cache,
                       disk |-> disk]) = TotalWithdrawn

\* a state after a withdrawal made by submitWithdrawal was rejected and
\* another one completed
C4_Witness ==
  /\ \E i \in 1 .. Len(Withdrawals) :
       Withdrawals[i].status = "rejected" /\ Withdrawals[i].requestedAt >= 1
  /\ \E i \in 1 .. Len(Withdrawals) :
       Withdrawals[i].status = "completed" /\ Withdrawals[i].processedAt >= 1
  /\ TotalWithdrawn > 0

\* C5: resolving an existing withdrawal of amount a to completed, directly
\* or through the PUT endpoint, increases totalWithdrawn by exactly a, and
\* the snapshot getRealTimeIncome returns right after has an
\* availableBalance lower by exactly a than the one it returns right before.
C5_CompletionMovesExactlyAmount ==
  \A id \in WithdrawalIds :
    HasWithdrawal(id) =>
      LET a == WithdrawalOf(id).amount
          u == updateWithdrawalStatus(cache, disk, now, id, "completed",
                                      ProcessingNotes, TRUE)
          h == putWithdrawStatus(cache, disk, now, id, "completed",
                                 ProcessingNotes, TRUE)
      IN /\ WithdrawnAfter(u) = TotalWithdrawn + a
         /\ getRealTimeIncome(u.cache, u.disk).snapshot.availableBalance
              = SnapshotNow.availableBalance - a
         /\ WithdrawnAfter(h) = TotalWithdrawn + a
         /\ getRealTimeIncome(h.cache, h.disk).snapshot.availableBalance
              = SnapshotNow.availableBalance - a

\* a state right after a withdrawal made by submitWithdrawal was completed
C5_Witness ==
  \E i \in 1 .. Len(Withdrawals) :
    /\ Withdrawals[i].requestedAt >= 1
    /\ Withdrawals[i].status = "completed"
    /\ Withdrawals[i].processedAt = now
    /\ TotalWithdrawn >= Withdrawals[i].amount


\* submitWithdrawal succeeded from the present state with outcome res: the
\* document has exactly one more withdrawal, the last one, which is pending
\* with amount amt and no processedAt; w is that record; and
\* getWithdrawalRecords('pending') right after contains it
Appended(res, w, amt) ==
  LET after == IncomeAfter(res).withdrawals
  IN /\ Len(after) = Len(Withdrawals) + 1
     /\ SubSeq(after, 1, Len(Withdrawals)) = Withdrawals
     /\ after[Len(after)] = w
     /\ w.amount = amt
     /\ w.status = "pending"
     /\ w.processedAt = NullTime
     /\ w.requestedAt = now
     /\ res.disk[IncomeFile] = IncomeAfter(res)
     /\ LET recs == getWithdrawalRecords(res.cache, res.disk, "pending").value
        IN \E i \in 1 .. Len(recs) : recs[i] = w

\* the amount expected in the record of a withdrawal submitted with amount
\* a: a rounded to two decimals, or a itself
expectedAmount(a, rounded) == IF rounded THEN toFixed2(a) ELSE a

\* every submitWithdrawal with 0 < amount <= availableBalance returns, and
\* appends, one pending withdrawal of the expected amount; through the
\* endpoint (when the validator lets the body pass) the response is 201
\* with that record
SubmitAccepts(rounded) ==
  /\ \A a \in Amounts :
       (a > 0 /\ a <= SnapshotNow.availableBalance) =>
         LET s == submitWithdrawal(cache, disk, now, a, AccountInfo, TRUE)
         IN ~s.threw /\ Appended(s, s.value, expectedAmount(a, rounded))
  /\ \A a \in BodyAmounts :
       (validateWithdrawalRequest(a) = "" /\ a <= SnapshotNow.availableBalance) =>
         LET h == postWithdraw(cache, disk, now, a, AccountInfo, TRUE)
         IN /\ h.response.status = 201
            /\ h.response.entered
            /\ Appended(h, h.response.value, expectedAmount(a, rounded))

\* C6 (as amended): when amount > 0 and amount <= availableBalance,
\* submitWithdrawal appends exactly one new withdrawal whose amount is the
\* given amount rounded to two decimals (the given amount when it has at most
\* two fractional digits), with status pending and processedAt unset, returns
\* it (HTTP 201 through the withdraw endpoint), and a following
\* getWithdrawalRecords('pending') contains that record.
C6_SubmitAppendsRoundedPending == SubmitAccepts(TRUE)

\* C6 as stated: the appended withdrawal carries the very amount that was
\* passed.
C6_SubmitAppendsThatAmount == SubmitAccepts(FALSE)

\* a state right after a submitWithdrawal: the last withdrawal is pending,
\* was requested at the present clock reading, carries 10.00, and
\* getWithdrawalRecords('pending') returns it
C6_Witness ==
  /\ Len(Withdrawals) > 0
  /\ LET w == Withdrawals[Len(Withdrawals)]
         recs == getWithdrawalRecords(cache, disk, "pending").value
     IN /\ w.status = "pending"
        /\ w.requestedAt = now
        /\ w.processedAt = NullTime
        /\ w.amount = Dollars(10)
        /\ disk[IncomeFile] # NoDoc
        /\ disk[IncomeFile].withdrawals[Len(Withdrawals)] = w
        /\ \E i \in 1 .. Len(recs) : recs[i] = w

\* a call with outcome res left the income document and the income file as
\* they are
IncomeUntouched(res) ==
  /\ IncomeAfter(res) = IncomeNow
  /\ res.disk = disk

\* C7: submitWithdrawal with amount <= 0 fails with the invalid-amount
\* error; with a positive amount greater than availableBalance it fails with
\* the insufficient-balance error, whose message differs from the
\* invalid-amount one, also in the 400 response of the endpoint; in both
\* cases nothing is appended and the income document is unchanged.
C7_RejectedSubmitChangesNothing ==
  /\ ErrInvalidAmount # ErrInsufficient
  /\ \A a \in Amounts :
       LET s == submitWithdrawal(cache, disk, now, a, AccountInfo, TRUE)
       IN /\ a <= 0 =>
               s.threw /\ s.error = ErrInvalidAmount /\ IncomeUntouched(s)
          /\ (a > 0 /\ a > SnapshotNow.availableBalance) =>
               s.threw /\ s.error = ErrInsufficient /\ IncomeUntouched(s)
  /\ \A a \in BodyAmounts :
       LET h == postWithdraw(cache, disk, now, a, AccountInfo, TRUE)
       IN /\ a <= 0 =>
               /\ h.response.status = 400
               /\ h.response.message # ErrInsufficient
               /\ IncomeUntouched(h)
          /\ (validateWithdrawalRequest(a) = ""
                /\ a > SnapshotNow.availableBalance) =>
               /\ h.response.status = 400
               /\ h.response.entered
               /\ h.response.message = ErrInsufficient
               /\ IncomeUntouched(h)

\* a state, after withdrawals were completed and ORD001 was cancelled, whose
\* balance is below 10.00: a body amount of 10.00 passes the validator and
\* is refused by the service for insufficient balance, while 0 is refused
\* as invalid
C7_Witness ==
  /\ Len(Withdrawals) > 0
  /\ SnapshotNow.availableBalance < Dollars(10)
  /\ postWithdraw(cache, disk, now, Dollars(10), AccountInfo, TRUE).response
       = Response(400, errorType(400), ErrInsufficient, NoDoc, TRUE)
  /\ submitWithdrawal(cache, disk, now, Dollars(10) - 4, AccountInfo, TRUE).error
       = ErrInsufficient
  /\ submitWithdrawal(cache, disk, now, 0, AccountInfo, TRUE).error
       = ErrInvalidAmount

\* C8: a request to POST /income/withdraw whose amount is below 10 or above
\* 10000 is answered 400 by the validator, the income service is not called,
\* and the withdrawals (the whole cache and the files) are as before.
C8_OutOfBoundsStopsAtValidator ==
  \A a \in BodyAmounts :
    (a < Dollars(minWithdrawal) \/ a > Dollars(maxWithdrawal)) =>
      LET h == postWithdraw(cache, disk, now, a, AccountInfo, TRUE)
      IN /\ h.response.status = 400
         /\ ~h.response.entered
         /\ h.response.value = NoDoc
         /\ h.cache = cache
         /\ h.disk = disk

\* a state with withdrawals on file where the service itself would accept
\* 9.99 (the balance covers it) and the endpoint answers "Amount too low"
C8_Witness ==
  /\ Len(Withdrawals) > 0
  /\ disk[IncomeFile] # NoDoc
  /\ ~submitWithdrawal(cache, disk, now, Cents(999), AccountInfo, TRUE).threw
  /\ postWithdraw(cache, disk, now, Cents(999), AccountInfo, TRUE).response
       = Response(400, "Amount too low", "Amount too low", NoDoc, FALSE)
  /\ postWithdraw(cache, disk, now, Dollars(maxWithdrawal) + Cents(1),
                  AccountInfo, TRUE).response.error = "Amount too high"

\* C9: the service validates on its own: submitWithdrawal called directly
\* with an amount below 10 or above 10000 throws, and updateWithdrawalStatus
\* called directly with a status outside {completed, rejected} does not
\* update a withdrawal; each leaves the income document unchanged.
C9_ServiceRevalidates ==
  /\ \A a \in Amounts :
       (a < Dollars(minWithdrawal) \/ a > Dollars(maxWithdrawal)) =>
         LET s == submitWithdrawal(cache, disk, now, a, AccountInfo, TRUE)
         IN s.threw /\ IncomeUntouched(s)
  /\ \A id \in WithdrawalIds, st \in NewStatuses \ validStatuses :
       LET u == updateWithdrawalStatus(cache, disk, now, id, st,
                                       ProcessingNotes, TRUE)
       IN ~u.found /\ IncomeUntouched(u)

\* C10: the withdrawals of the income document have pairwise distinct
\* withdrawalIds, also when two were submitted at the same clock reading.
C10_WithdrawalIdsDistinct ==
  \A i, j \in 1 .. Len(Withdrawals) :
    i # j => Withdrawals[i].withdrawalId # Withdrawals[j].withdrawalId


----------------------------------------------------------------------------
(* Withdraw requests in flight.  A request to POST /income/withdraw is      *)
(* received (queued) and its handler then runs: the validator, the          *)
(* controller and IncomeService.submitWithdrawal, here split at the reads   *)
(* (lines 187-188), the guards (191-197) and the push and write (212-219).  *)
(* Every call on that path is synchronous (readFileSync, writeFileSync, no  *)
(* await), so the event loop starts no other handler in between.            *)

\* the number of withdraw requests issued
MaxRequests == 2

\* the amounts of the concurrent request bodies: 20.00 and 40.00
RaceAmounts == {Dollars(20), Dollars(40)}

\* a request as received
queued(amount) ==
  [amount |-> amount, pc |-> "queued", balance |-> 0, doc |-> NoDoc,
   shared |-> FALSE, seen |-> 0, response |-> NoDoc]

\* a handler that has read the balance and not yet written or answered
midHandler(req) == req.pc \in {"read", "checked"}

\* the event loop runs the handler of request i only while no other
\* handler is between its first and its last statement
mayRun_BadYieldsBetweenSteps(reqs, i) == TRUE

mayRun(reqs, i) ==
  \A j \in 1 .. Len(reqs) : j # i => ~midHandler(reqs[j])

\* a request is received
Arrive ==
  \E amount \in RaceAmounts :
    /\ Len(inflight) < MaxRequests
    /\ inflight' = Append(inflight, queued(amount))
    /\ UNCHANGED <<now, cache, disk>>

\* validateWithdrawalRequest, then submitWithdrawal's getIncomeData() and
\* getRealTimeIncome()
BeginSubmit ==
  \E i \in 1 .. Len(inflight) :
    LET req == inflight[i]
        verr == validateWithdrawalRequest(req.amount)
        r == getIncomeData(cache, disk)
        rt == getRealTimeIncome(r.cache, disk)
    IN /\ req.pc = "queued"
       /\ mayRun(inflight, i)
       /\ IF verr # ""
            THEN /\ inflight' = [inflight EXCEPT ![i].pc = "done",
                                   ![i].response = Response(400, verr, verr, NoDoc, FALSE)]
                 /\ UNCHANGED cache
            ELSE /\ inflight' = [inflight EXCEPT ![i].pc = "read",
                                   ![i].amount = toFixed2(req.amount),
                                   ![i].balance = rt.snapshot.availableBalance,
                                   ![i].doc = r.data,
                                   ![i].shared = r.shared,
                                   ![i].seen = Len(r.data.withdrawals)]
                 /\ cache' = rt.cache
       /\ UNCHANGED <<now, disk>>

\* the two guards of submitWithdrawal, on the balance read before
CheckSubmit ==
  \E i \in 1 .. Len(inflight) :
    LET req == inflight[i]
        err == submitGuard(req.amount, req.balance)
    IN /\ req.pc = "read"
       /\ inflight' =
            IF err # ""
              THEN [inflight EXCEPT ![i].pc = "done",
                      ![i].response = Response(400, errorType(400), err, NoDoc, TRUE)]
              ELSE [inflight EXCEPT ![i].pc = "checked"]
       /\ UNCHANGED <<now, cache, disk>>

\* the push onto the document read before, the write, and the 201
AppendSubmit ==
  \E i \in 1 .. Len(inflight), fsOk \in WriteOutcomes :
    LET req == inflight[i]
        w == newWithdrawal(req.amount, AccountInfo, now)
        base == IF req.shared THEN cache[IncomeFile] ELSE req.doc
        data == [base EXCEPT !.withdrawals = Append(@, w)]
        wr == write(mutateShared(req, cache, IncomeFile, data), disk,
                    IncomeFile, data, fsOk)
    IN /\ req.pc = "checked"
       /\ cache' = wr.cache
       /\ disk' = wr.disk
       /\ inflight' = [inflight EXCEPT ![i].pc = "done",
                         ![i].response = Response(201, "", "", w, TRUE)]
       /\ UNCHANGED now

NextRace ==
  \/ Tick
  \/ Arrive
  \/ BeginSubmit
  \/ CheckSubmit
  \/ AppendSubmit

SpecRace == Init /\ [][NextRace]_vars

\* request i was answered 201
accepted(i) == inflight[i].pc = "done" /\ inflight[i].response.status = 201

----------------------------------------------------------------------------
(* Calendar.  Clock readings are taken on a grid of TicksPerDay readings    *)
(* per day, reading 0 being 2025-01-01T00:00:00.000Z; an ISO date string    *)
(* is modelled by the date [y, m, d] it spells, 'YYYY-MM' by [y, m].  The   *)
(* process runs in UTC, so the local-time fields that setDate and setMonth  *)
(* work on are the UTC fields that toISOString prints.                      *)

TicksPerDay == 2

isLeap(y) == (y % 4 = 0 /\ y % 100 # 0) \/ y % 400 = 0

daysInMonth(y, m) ==
  IF m = 2 THEN (IF isLeap(y) THEN 29 ELSE 28)
  ELSE IF m \in {4, 6, 9, 11} THEN 30
  ELSE 31

\* the date n days after the first of month m of year y (n may be negative
\* or beyond the month: the Date object carries into the next months)
RECURSIVE dateFrom(_, _, _)
dateFrom(y, m, n) ==
  IF n < 0
    THEN (IF m = 1 THEN dateFrom(y - 1, 12, n + 31)
          ELSE dateFrom(y, m - 1, n + daysInMonth(y, m - 1)))
  ELSE IF n >= daysInMonth(y, m)
    THEN (IF m = 12 THEN dateFrom(y + 1, 1, n - 31)
          ELSE dateFrom(y, m + 1, n - daysInMonth(y, m)))
  ELSE [y |-> y, m |-> m, d |-> n + 1]

\* the number of days from 2025-01-01 to the first of month m of year y
RECURSIVE daysBefore(_, _)
daysBefore(y, m) ==
  IF y = 2025 /\ m = 1 THEN 0
  ELSE IF m = 1 THEN daysBefore(y - 1, 12) + 31
  ELSE daysBefore(y, m - 1) + daysInMonth(y, m - 1)

\* the day number of a clock reading, and toISOString().split('T')[0]
dayOf(t) == t \div TicksPerDay
toISODate(t) == dateFrom(2025, 1, dayOf(t))

\* toISOString().substring(0, 7) of a date
monthLabel(date) == [y |-> date.y, m |-> date.m]

\* order.deliveredAt || order.createdAt
effectiveAt(order) ==
  IF order.deliveredAt # NullTime THEN order.deliveredAt ELSE order.createdAt

----------------------------------------------------------------------------
(* services/orders.service.js: getOrderStatistics *)

RECURSIVE sumFees(_)
sumFees(orders) ==
  IF orders = <<>> THEN 0
  ELSE Head(orders).deliveryFee + sumFees(Tail(orders))

\* the test of the "today" block: orderDate && orderDate.startsWith(today)
datedToday(order, t) ==
  /\ effectiveAt(order) # NullTime
  /\ toISODate(effectiveAt(order)) = toISODate(t)

\* OrdersService.getOrderStatistics at clock reading t
getOrderStatistics(c, d, t) ==
  LET o == getAllOrders(c, d)
      orders == o.orders
      delivered == SelectSeq(orders, LAMBDA x : x.status = "delivered")
  IN [stats |->
        [total |-> Len(orders),
         ongoing |-> Len(SelectSeq(orders, LAMBDA x :
                       x.status \in {"assigned", "picked_up", "in_transit"})),
         completed |-> Len(delivered),
         cancelled |-> Len(SelectSeq(orders, LAMBDA x : x.status = "cancelled")),
         totalEarnings |-> toFixed2(sumFees(delivered)),
         todayEarnings |-> toFixed2(sumFees(SelectSeq(delivered,
                             LAMBDA x : datedToday(x, t)))),
         todayOrders |-> Len(SelectSeq(orders, LAMBDA x : datedToday(x, t)))],
      cache |-> o.cache]

\* the sum of deliveryFee over the orders at the positions in idx
RECURSIVE feeOver(_, _)
feeOver(orders, idx) ==
  IF idx = {} THEN 0
  ELSE LET i == CHOOSE k \in idx : TRUE
       IN orders[i].deliveryFee + feeOver(orders, idx \ {i})

\* the orders the services read now
OrdersNow == getAllOrders(cache, disk).orders
OrderOf(orderId) == OrdersNow[orderIndexFrom(OrdersNow, orderId, 1)]

\* C12: totalEarnings as reported by getOrderStatistics and by
\* getRealTimeIncome is the sum of deliveryFee over exactly the orders whose
\* status is delivered (rounded to two decimals, as every reported money
\* field is), in every state reached by updateOrderStatus calls.
C12_EarningsAreDeliveredFees ==
  LET delivered == {i \in 1 .. Len(OrdersNow) : OrdersNow[i].status = "delivered"}
      expected == toFixed2(feeOver(OrdersNow, delivered))
  IN /\ getOrderStatistics(cache, disk, now).stats.totalEarnings = expected
     /\ SnapshotNow.totalEarnings = expected

\* ORD001 was moved into delivered by updateOrderStatus (its deliveredAt is
\* a reading of this run) and then out of it: only ORD003's 5.004 counts
C12_Witness ==
  /\ OrderOf("ORD001").status = "cancelled"
  /\ OrderOf("ORD001").deliveredAt >= 1
  /\ getOrderStatistics(cache, disk, now).stats.totalEarnings = Cents(500)
  /\ SnapshotNow.totalEarnings = Cents(500)


----------------------------------------------------------------------------
(* services/orders.service.js: the other reads *)

\* Array.prototype.sort with (a, b) => new Date(b.createdAt) -
\* new Date(a.createdAt): newest first, stable
RECURSIVE insertNewestCreated(_, _)
insertNewestCreated(acc, x) ==
  IF acc = <<>> THEN <<x>>
  ELSE IF Head(acc).createdAt >= x.createdAt
    THEN <<Head(acc)>> \o insertNewestCreated(Tail(acc), x)
  ELSE <<x>> \o acc

RECURSIVE sortNewestCreatedFrom(_, _)
sortNewestCreatedFrom(acc, orders) ==
  IF orders = <<>> THEN acc
  ELSE sortNewestCreatedFrom(insertNewestCreated(acc, Head(orders)), Tail(orders))

\* OrdersService.getRecentOrders: orders.sort sorts the array getAllOrders
\* returned, which is the array of the cached document
getRecentOrders(c, d, limit) ==
  LET o == getAllOrders(c, d)
      sorted == sortNewestCreatedFrom(<<>>, o.orders)
  IN [value |-> SubSeq(sorted, 1, IF limit < Len(sorted) THEN limit ELSE Len(sorted)),
      cache |-> mutateShared(o, o.cache, OrdersFile, [orders |-> sorted])]

getOrdersByStatus_BadInTransitIsCompleted(c, d, status) ==
  LET o == getAllOrders(c, d)
  IN [value |->
        IF status = "all" THEN o.orders
        ELSE SelectSeq(o.orders, LAMBDA x :
               IF status = "ongoing"
                 THEN x.status \in {"assigned", "picked_up"}
               ELSE IF status = "completed"
                 THEN x.status \in {"in_transit", "delivered", "cancelled"}
               ELSE FALSE),
      cache |-> o.cache]

\* OrdersService.getOrdersByStatus: filter() makes a new array
getOrdersByStatus(c, d, status) ==
  LET o == getAllOrders(c, d)
  IN [value |->
        IF status = "all" THEN o.orders
        ELSE SelectSeq(o.orders, LAMBDA x :
               IF status = "ongoing"
                 THEN x.status \in {"assigned", "picked_up", "in_transit"}
               ELSE IF status = "completed"
                 THEN x.status \in {"delivered", "cancelled"}
               ELSE FALSE),
      cache |-> o.cache]

\* OrdersService.searchOrders, for a query that is a whole orderId in any
\* letter case ("" is contained in every field)
searchOrders(c, d, query) ==
  LET o == getAllOrders(c, d)
  IN [value |-> SelectSeq(o.orders, LAMBDA x : query = "" \/ x.orderId = query),
      cache |-> o.cache]

----------------------------------------------------------------------------
(* services/income.service.js: getIncomeTrend *)

\* labels.indexOf(x), counted from 1; 0 stands for -1
RECURSIVE indexFrom(_, _, _)
indexFrom(labels, x, i) ==
  IF i > Len(labels) THEN 0
  ELSE IF labels[i] = x THEN i
  ELSE indexFrom(labels, x, i + 1)

indexOf(labels, x) == indexFrom(labels, x, 1)

\* getLast7Days: for i = 6 .. 0, new Date() with setDate(getDate() - i)
getLast7Days_BadStartsYesterday(t) ==
  LET today == toISODate(t)
  IN [k \in 1 .. 7 |-> dateFrom(today.y, today.m, today.d - 1 - (8 - k))]

getLast7Days(t) ==
  LET today == toISODate(t)
  IN [k \in 1 .. 7 |-> dateFrom(today.y, today.m, today.d - 1 - (7 - k))]

\* getLast4Weeks
getLast4Weeks == <<"Week 1", "Week 2", "Week 3", "Week 4">>

\* getWeekIndex(date) at clock reading t
getWeekIndex(t, at) == ((t - at) \div TicksPerDay) \div 7

\* new Date() with setMonth(getMonth() - i): the same day of the month i
\* months back, carried into the following month when that month is shorter
setMonthBack(date, i) ==
  LET months == date.y * 12 + (date.m - 1) - i
      y == months \div 12
      m == (months % 12) + 1
  IN dateFrom(y, m, date.d - 1)

\* getLast6Months: for i = 5 .. 0
getLast6Months(t) ==
  [k \in 1 .. 6 |-> monthLabel(setMonthBack(toISODate(t), 6 - k))]

\* the position (from 1) of the bucket a delivered order is added to; 0 when
\* it is added to none.  Weekly: the test is weekIndex !== -1 && weekIndex <
\* 4 and the position is weekIndex itself; a weekIndex below -1 (an order
\* dated more than a week ahead) passes the test and sets a property that is
\* none of the four buckets.
weeklyPosition(t, order) ==
  LET weekIndex == getWeekIndex(t, effectiveAt(order))
  IN IF weekIndex # 0 - 1 /\ weekIndex < 4 /\ weekIndex >= 0
       THEN weekIndex + 1 ELSE 0

dailyPosition(t, order) ==
  indexOf(getLast7Days(t), toISODate(effectiveAt(order)))

monthlyPosition(t, order) ==
  indexOf(getLast6Months(t), monthLabel(toISODate(effectiveAt(order))))

trendPosition(period, t, order) ==
  IF period = "daily" THEN dailyPosition(t, order)
  ELSE IF period = "weekly" THEN weeklyPosition(t, order)
  ELSE IF period = "monthly" THEN monthlyPosition(t, order)
  ELSE 0

trendLabels(period, t) ==
  IF period = "daily" THEN getLast7Days(t)
  ELSE IF period = "weekly" THEN getLast4Weeks
  ELSE IF period = "monthly" THEN getLast6Months(t)
  ELSE <<>>

\* IncomeService.getIncomeTrend at clock reading t
getIncomeTrend(c, d, t, period) ==
  LET o == getAllOrders(c, d)
      deliveredOrders == SelectSeq(o.orders, LAMBDA x : x.status = "delivered")
      labels == trendLabels(period, t)
      into(k) == SelectSeq(deliveredOrders,
                           LAMBDA x : trendPosition(period, t, x) = k)
  IN [trend |->
        [period |-> period,
         labels |-> labels,
         earnings |-> [k \in 1 .. Len(labels) |-> toFixed2(sumFees(into(k)))],
         orderCounts |-> [k \in 1 .. Len(labels) |-> Len(into(k))]],
      cache |-> o.cache]


----------------------------------------------------------------------------
(* The reports over a stored orders collection: the process starts at some  *)
(* instant with an orders file written earlier and serves read requests.    *)

\* the dates of the start: ends, middles and beginnings of months
ReportDates ==
  {[y |-> 2025, m |-> 3, d |-> 31], [y |-> 2025, m |-> 3, d |-> 15],
   [y |-> 2025, m |-> 5, d |-> 31], [y |-> 2025, m |-> 7, d |-> 29],
   [y |-> 2025, m |-> 1, d |-> 31], [y |-> 2025, m |-> 3, d |-> 1]}

\* the first and the last clock reading of each of these days
ReportInstants ==
  {(daysBefore(date.y, date.m) + date.d - 1) * TicksPerDay + k :
     date \in ReportDates, k \in {0, TicksPerDay - 1}}

\* how long before the start an order was delivered or created: the same
\* instant, a day, six days and a reading, 7, 27, 28, 45 and 200 days; and 8
\* days after it (a timestamp ahead of the clock)
Ages ==
  {0, TicksPerDay, 6 * TicksPerDay + 1, 7 * TicksPerDay, 27 * TicksPerDay,
   28 * TicksPerDay, 45 * TicksPerDay, 200 * TicksPerDay, 0 - 8 * TicksPerDay}

\* the orders file at start t: ORD001 delivered a1 ago; ORD002 created a2
\* ago, never stamped deliveredAt, in_transit or delivered; ORD003 delivered
\* at t itself
OrderBook(t, a1, a2, status2) ==
  [orders |->
     << [orderId |-> "ORD001", status |-> "delivered",
         deliveryFee |-> Cents(2550) + 4, createdAt |-> t - a1 - 1,
         deliveredAt |-> t - a1],
        [orderId |-> "ORD002", status |-> status2,
         deliveryFee |-> Dollars(10) + 4, createdAt |-> t - a2,
         deliveredAt |-> NullTime],
        [orderId |-> "ORD003", status |-> "delivered",
         deliveryFee |-> Dollars(5) + 4, createdAt |-> t - 1,
         deliveredAt |-> t] >>]

InitReports ==
  /\ now \in ReportInstants
  /\ inflight = <<>>
  /\ cache = [f \in Files |-> NoDoc]
  /\ \E a1 \in Ages, a2 \in Ages, status2 \in {"in_transit", "delivered"} :
       disk = [f \in Files |->
                 IF f = OrdersFile THEN OrderBook(now, a1, a2, status2) ELSE NoDoc]

StatusFilters == {"all", "ongoing", "completed"}
Queries == {"", "ORD002", "ORD999"}
Periods == {"daily", "weekly", "monthly"}
RecentLimits == {1, 10}

\* a read request: a call of one of the reading methods; all it can change
\* is the cache
GetOrdersByStatusStep ==
  \E status \in StatusFilters :
    /\ cache' = getOrdersByStatus(cache, disk, status).cache
    /\ UNCHANGED <<now, disk, inflight>>

GetRecentOrdersStep ==
  \E limit \in RecentLimits :
    /\ cache' = getRecentOrders(cache, disk, limit).cache
    /\ UNCHANGED <<now, disk, inflight>>

SearchOrdersStep ==
  \E query \in Queries :
    /\ cache' = searchOrders(cache, disk, query).cache
    /\ UNCHANGED <<now, disk, inflight>>

GetOrderStatisticsStep ==
  /\ cache' = getOrderStatistics(cache, disk, now).cache
  /\ UNCHANGED <<now, disk, inflight>>

GetIncomeTrendStep ==
  \E period \in Periods :
    /\ cache' = getIncomeTrend(cache, disk, now, period).cache
    /\ UNCHANGED <<now, disk, inflight>>

NextReports ==
  \/ GetOrdersByStatusStep
  \/ GetRecentOrdersStep
  \/ SearchOrdersStep
  \/ GetOrderStatisticsStep
  \/ GetIncomeTrendStep
  \/ GetRealTimeIncome

SpecReports == InitReports /\ [][NextReports]_vars

\* the positions of the delivered orders among the orders read now
DeliveredNow == {i \in 1 .. Len(OrdersNow) : OrdersNow[i].status = "delivered"}

\* C13: getAllOrders returns every order in the collection's insertion
\* order (the order of the orders file) in every reachable state, whatever
\* reads came before.
C13_AllOrdersInInsertionOrder ==
  getAllOrders(cache, disk).orders = disk[OrdersFile].orders


\* the reports as the services return them now
WeeklyNow == getIncomeTrend(cache, disk, now, "weekly").trend
DailyNow == getIncomeTrend(cache, disk, now, "daily").trend
MonthlyNow == getIncomeTrend(cache, disk, now, "monthly").trend
StatsNow == getOrderStatistics(cache, disk, now).stats

\* C14: in getIncomeTrend('weekly') a delivered order with weekIndex =
\* floor((now - effectiveDate) / 7 days) in 0..3 is accumulated at array
\* position 3 - weekIndex (the most recent week in the last bucket, 'Week
\* 4'), and orders with a weekIndex outside 0..3 change no bucket.
C14_WeeklyBucketIsThreeMinusWeekIndex ==
  LET weekIndex(i) ==
        ((now - effectiveAt(OrdersNow[i])) \div TicksPerDay) \div 7
      in(k) == {i \in DeliveredNow :
                  weekIndex(i) \in 0 .. 3 /\ k - 1 = 3 - weekIndex(i)}
  IN /\ WeeklyNow.labels[4] = "Week 4"
     /\ \A k \in 1 .. 4 :
          /\ WeeklyNow.earnings[k] = toFixed2(feeOver(OrdersNow, in(k)))
          /\ WeeklyNow.orderCounts[k] = Cardinality(in(k))

\* the date n days before the day of the clock reading t
daysAgo(t, n) == dateFrom(2025, 1, dayOf(t) - n)

\* C15: getIncomeTrend('daily') returns the 7 labels of today minus 6 .. 0
\* days, oldest first; every bucket holds the fees (rounded) and the number
\* of exactly the delivered orders whose effective calendar date is its
\* label, so delivered orders dated outside the window and orders that are
\* not delivered are in no bucket.
C15_DailyBucketsByCalendarDate ==
  LET in(k) == {i \in DeliveredNow :
                  toISODate(effectiveAt(OrdersNow[i])) = daysAgo(now, 7 - k)}
  IN /\ Len(DailyNow.labels) = 7
     /\ \A k \in 1 .. 7 :
          /\ DailyNow.labels[k] = daysAgo(now, 7 - k)
          /\ DailyNow.earnings[k] = toFixed2(feeOver(OrdersNow, in(k)))
          /\ DailyNow.orderCounts[k] = Cardinality(in(k))

\* the orders were read and reported: ORD001, delivered 6 days and a
\* reading ago, is in the first or second bucket; ORD003, delivered today,
\* is in the last; ORD002, in_transit and created today, is in none; on a
\* day whose window crosses the end of February
C15_Witness ==
  /\ cache[OrdersFile] # NoDoc
  /\ toISODate(now) = [y |-> 2025, m |-> 3, d |-> 1]
  /\ OrderOf("ORD001").deliveredAt = now - (6 * TicksPerDay + 1)
  /\ OrderOf("ORD002").status = "in_transit"
  /\ OrderOf("ORD002").createdAt = now
  /\ DailyNow.orderCounts[7] = 1
  /\ DailyNow.earnings[7] = Dollars(5)
  /\ DailyNow.orderCounts[1] + DailyNow.orderCounts[2] = 1
  /\ DailyNow.labels[1] = [y |-> 2025, m |-> 2, d |-> 23]

\* the month n months before the month of the clock reading t
monthsAgo(t, n) ==
  LET months == toISODate(t).y * 12 + (toISODate(t).m - 1) - n
  IN [y |-> months \div 12, m |-> (months % 12) + 1]

\* C16: on every date the labels of getIncomeTrend('monthly') are the six
\* consecutive calendar months from this month minus 5 to this month, oldest
\* first, and every bucket holds exactly the delivered orders whose
\* effective date is in its month.
C16_MonthlyLabelsAreSixConsecutiveMonths ==
  LET in(k) == {i \in DeliveredNow :
                  monthLabel(toISODate(effectiveAt(OrdersNow[i])))
                    = monthsAgo(now, 6 - k)}
  IN /\ Len(MonthlyNow.labels) = 6
     /\ \A k \in 1 .. 6 :
          /\ MonthlyNow.labels[k] = monthsAgo(now, 6 - k)
          /\ MonthlyNow.earnings[k] = toFixed2(feeOver(OrdersNow, in(k)))
          /\ MonthlyNow.orderCounts[k] = Cardinality(in(k))

\* C17: in getOrderStatistics todayOrders is the number of delivered orders
\* whose effective date (deliveredAt, else createdAt) is the current
\* calendar day, and todayEarnings the sum of their deliveryFee; orders of
\* another status dated today are not counted.
C17_TodayCountsDeliveredOnly ==
  LET today == {i \in DeliveredNow :
                  toISODate(effectiveAt(OrdersNow[i])) = toISODate(now)}
  IN /\ StatsNow.todayOrders = Cardinality(today)
     /\ StatsNow.todayEarnings = toFixed2(feeOver(OrdersNow, today))

\* C18: updateWithdrawalStatus with a withdrawalId that no withdrawal has
\* returns null, the endpoint answers 404 NotFoundError, and every
\* withdrawal and totalWithdrawn are as before, in memory and in the file.
C18_UnknownIdIsNotFound ==
  \A id \in WithdrawalIds, st \in validStatuses :
    (\A i \in 1 .. Len(Withdrawals) : Withdrawals[i].withdrawalId # id) =>
      LET u == updateWithdrawalStatus(cache, disk, now, id, st,
                                      ProcessingNotes, TRUE)
          h == putWithdrawStatus(cache, disk, now, id, st,
                                 ProcessingNotes, TRUE)
      IN /\ ~u.found
         /\ u.value = NoDoc
         /\ IncomeUntouched(u)
         /\ h.response.status = 404
         /\ h.response.error = "NotFoundError"
         /\ h.response.entered
         /\ IncomeUntouched(h)

\* a state with a pending withdrawal in the collection and an id among the
\* callers' ids that no withdrawal has: the update of that id is refused
\* while the update of the stored id would be carried out
C18_Witness ==
  /\ Len(Withdrawals) > 0
  /\ Withdrawals[1].status = "pending"
  /\ \E id \in WithdrawalIds :
       /\ \A i \in 1 .. Len(Withdrawals) : Withdrawals[i].withdrawalId # id
       /\ ~updateWithdrawalStatus(cache, disk, now, id, "completed",
                                  ProcessingNotes, TRUE).found
       /\ updateWithdrawalStatus(cache, disk, now,
                                 Withdrawals[1].withdrawalId, "completed",
                                 ProcessingNotes, TRUE).found

----------------------------------------------------------------------------
(* The same calls over a data directory that can fail: a write may throw   *)
(* (disk full, read-only directory), and a file found at start-up may be   *)
(* one that cannot be read or parsed.  The calls are those that read and   *)
(* write the income document; the orders file is only read.                *)

\* the outcomes of fs.writeFileSync when the directory can fail
FaultyWriteOutcomes == BOOLEAN

InitFaults ==
  /\ now = 1
  /\ inflight = <<>>
  /\ cache = [f \in Files |-> NoDoc]
  /\ disk \in {[f \in Files |-> IF f = OrdersFile THEN ord ELSE inc] :
                 ord \in {SeedOrders, Unreadable},
                 inc \in {NoDoc, SeedIncome, Unreadable}}

SubmitWithdrawalOrFail ==
  \E amount \in Amounts, fsOk \in FaultyWriteOutcomes :
    /\ Len(Withdrawals) < MaxWithdrawals
    /\ SubmitWithdrawalStep(amount, fsOk)

PostWithdrawOrFail ==
  \E amount \in BodyAmounts, fsOk \in FaultyWriteOutcomes :
    /\ Len(Withdrawals) < MaxWithdrawals
    /\ PostWithdrawStep(amount, fsOk)

UpdateWithdrawalStatusOrFail ==
  \E id \in WithdrawalIds, newStatus \in NewStatuses,
     fsOk \in FaultyWriteOutcomes :
    /\ newStatus = "completed" => TotalWithdrawn <= Dollars(MaxWithdrawnUnits)
    /\ UpdateWithdrawalStatusStep(id, newStatus, fsOk)

PutWithdrawStatusOrFail ==
  \E id \in WithdrawalIds, status \in NewStatuses,
     fsOk \in FaultyWriteOutcomes :
    /\ status = "completed" => TotalWithdrawn <= Dollars(MaxWithdrawnUnits)
    /\ PutWithdrawStatusStep(id, status, fsOk)

NextFaults ==
  \/ Tick
  \/ SubmitWithdrawalOrFail
  \/ PostWithdrawOrFail
  \/ UpdateWithdrawalStatusOrFail
  \/ PutWithdrawStatusOrFail
  \/ GetRealTimeIncome
  \/ GetWithdrawalRecords

SpecFaults == InitFaults /\ [][NextFaults]_vars

\* C19: when the write of the income document fails, submitWithdrawal and
\* updateWithdrawalStatus return no withdrawal to their caller and the
\* endpoints do not answer 201 or 200.
C19_FailedWriteIsSurfaced ==
  /\ \A a \in Amounts \cup BodyAmounts :
       /\ submitWithdrawal(cache, disk, now, a, AccountInfo, FALSE).value
            = NoDoc
       /\ postWithdraw(cache, disk, now, a, AccountInfo, FALSE)
            .response.status # 201
  /\ \A id \in WithdrawalIds, st \in validStatuses :
       /\ updateWithdrawalStatus(cache, disk, now, id, st,
                                 ProcessingNotes, FALSE).value = NoDoc
       /\ putWithdrawStatus(cache, disk, now, id, st,
                            ProcessingNotes, FALSE).response.status # 200

\* the default document each service passes to DataStore.read
defaultValueOf(filename) ==
  IF filename = OrdersFile THEN [orders |-> <<>>] ELSE DefaultIncome

\* C20: a read of the orders or income document whose file exists and
\* cannot be read or parsed ends in a failure at the caller (getAllOrders,
\* getIncomeData); a read whose file is missing returns the default
\* document.
C20_UnreadableFileFailsTheRead ==
  /\ \A f \in Files :
       LET r == read(cache, disk, f, defaultValueOf(f))
       IN /\ (cache[f] = NoDoc /\ disk[f] = Unreadable) => r.threw
          /\ (cache[f] = NoDoc /\ disk[f] = NoDoc) =>
               ~r.threw /\ r.data = defaultValueOf(f)
  /\ (cache[OrdersFile] = NoDoc /\ disk[OrdersFile] = Unreadable) =>
       getAllOrders(cache, disk).threw
  /\ (cache[IncomeFile] = NoDoc /\ disk[IncomeFile] = Unreadable) =>
       getIncomeData(cache, disk).threw

----------------------------------------------------------------------------
(* The data store on its own: read, write and delete called on the two     *)
(* files by a caller that does not modify the objects it is given.         *)

\* the documents written: for each file its default, its seed and others
StoreDocs(filename) ==
  IF filename = OrdersFile
    THEN {SeedOrders, [orders |-> <<>>],
          [orders |-> <<SeedOrders.orders[1]>>],
          [orders |-> <<SeedOrders.orders[2]>>],
          [orders |-> <<SeedOrders.orders[3]>>]}
    ELSE {SeedIncome,
          [withdrawals |-> <<>>, totalWithdrawn |-> Dollars(10)],
          [withdrawals |-> <<newWithdrawal(Dollars(10), AccountInfo, 1)>>,
           totalWithdrawn |-> 0],
          [withdrawals |-> <<newWithdrawal(Dollars(20), AccountInfo, 1)>>,
           totalWithdrawn |-> 0],
          [withdrawals |-> <<newWithdrawal(Dollars(20), AccountInfo, 2)>>,
           totalWithdrawn |-> Dollars(10)]}

\* the outcomes of fs.writeFileSync and fs.unlinkSync
FsOutcomes == BOOLEAN

InitStore ==
  /\ now = 1
  /\ inflight = <<>>
  /\ cache = [f \in Files |-> NoDoc]
  /\ disk \in {[f \in Files |-> IF f = OrdersFile THEN ord ELSE inc] :
                 ord \in {NoDoc, Unreadable} \cup StoreDocs(OrdersFile),
                 inc \in {NoDoc, Unreadable} \cup StoreDocs(IncomeFile)}

StoreRead ==
  \E f \in Files :
    /\ cache' = read(cache, disk, f, defaultValueOf(f)).cache
    /\ UNCHANGED <<now, disk, inflight>>

StoreWrite ==
  \E f \in Files, fsOk \in FsOutcomes :
    \E doc \in StoreDocs(f) :
      LET w == write(cache, disk, f, doc, fsOk)
      IN /\ cache' = w.cache
         /\ disk' = w.disk
         /\ UNCHANGED <<now, inflight>>

StoreDelete ==
  \E f \in Files, fsOk \in FsOutcomes :
    LET x == delete(cache, disk, f, fsOk)
    IN /\ cache' = x.cache
       /\ disk' = x.disk
       /\ UNCHANGED <<now, inflight>>

NextStore == StoreRead \/ StoreWrite \/ StoreDelete

SpecStore == InitStore /\ [][NextStore]_vars

\* the store after a call that is neither a successful write nor a
\* successful delete of the file: a read, a write that failed, a delete
\* that failed
afterQuietCall(st, f, call) ==
  CASE call = "read" ->
         [cache |-> read(st.cache, st.disk, f, defaultValueOf(f)).cache,
          disk |-> st.disk]
    [] call = "failed write" ->
         LET w == write(st.cache, st.disk, f,
                        CHOOSE doc \in StoreDocs(f) : TRUE, FALSE)
         IN [cache |-> w.cache, disk |-> w.disk]
    [] call = "failed delete" ->
         LET x == delete(st.cache, st.disk, f, FALSE)
         IN [cache |-> x.cache, disk |-> x.disk]
    [] OTHER -> st

QuietCalls == {"none", "read", "failed write", "failed delete"}

\* what read returns from store st
readOf(st, f) == read(st.cache, st.disk, f, defaultValueOf(f)).data

\* after write(f, doc) returned true, and after up to two calls on f that
\* are neither a successful write nor a successful delete, read returns doc
ReadsBackTheWrite(f) ==
  \A doc \in StoreDocs(f), c1 \in QuietCalls, c2 \in QuietCalls :
    LET w == write(cache, disk, f, doc, TRUE)
        st == afterQuietCall(afterQuietCall([cache |-> w.cache,
                                             disk |-> w.disk], f, c1), f, c2)
    IN w.ok /\ readOf(st, f) = doc

\* after delete(f) whose outcome is io, and after up to one read, read
\* returns the default value
ReadsDefaultAfterDelete(f, io) ==
  \A c1 \in {"none", "read"} :
    LET x == delete(cache, disk, f, io)
        st == afterQuietCall([cache |-> x.cache, disk |-> x.disk], f, c1)
    IN readOf(st, f) = defaultValueOf(f)

\* C21 (as the code has it): in every state reached by reads, writes and
\* deletes, a read after a successful write(f, doc) with no later
\* successful write or delete returns doc, and a read after a delete(f)
\* whose unlink did not fail returns the default value.
C21_ReadSeesLastWriteOrDelete ==
  \A f \in Files :
    /\ ReadsBackTheWrite(f)
    /\ ReadsDefaultAfterDelete(f, TRUE)

\* a state where a document is cached for the income file: a write of
\* another document is read back instead of the cached one, and a delete
\* makes the read return the default
C21_Witness ==
  /\ cache[IncomeFile] \in StoreDocs(IncomeFile)
  /\ cache[IncomeFile] # SeedIncome
  /\ LET w == write(cache, disk, IncomeFile, SeedIncome, TRUE)
     IN readOf([cache |-> w.cache, disk |-> w.disk], IncomeFile) = SeedIncome
  /\ delete(cache, disk, IncomeFile, TRUE).ok
  /\ LET x == delete(cache, disk, IncomeFile, TRUE)
     IN readOf([cache |-> x.cache, disk |-> x.disk], IncomeFile)
          = DefaultIncome

\* C21 as stated: ... and a read after any delete(f) returns the default
\* value, also when unlinkSync failed.
C21_ReadAfterAnyDeleteIsDefault ==
  \A f \in Files :
    /\ ReadsBackTheWrite(f)
    /\ \A io \in FsOutcomes : ReadsDefaultAfterDelete(f, io)

----------------------------------------------------------------------------
(* getRealTimeIncome: the date windows and repeated calls *)

\* the today / week / month sums of getRealTimeIncome at clock reading t:
\* today needs a deliveredAt on today's date, the week and month windows
\* compare the instant of deliveredAt || createdAt with t - 7 and t - 30
\* days
getRealTimeIncomeWindows(c, d, t) ==
  LET o == getAllOrders(c, d)
      delivered == {i \in 1 .. Len(o.orders) : o.orders[i].status = "delivered"}
      today == {i \in delivered :
                  /\ o.orders[i].deliveredAt # NullTime
                  /\ toISODate(o.orders[i].deliveredAt) = toISODate(t)}
      week == {i \in delivered :
                 effectiveAt(o.orders[i]) >= t - 7 * TicksPerDay}
      month == {i \in delivered :
                  effectiveAt(o.orders[i]) >= t - 30 * TicksPerDay}
  IN [todayEarnings |-> toFixed2(feeOver(o.orders, today)),
      weekEarnings |-> toFixed2(feeOver(o.orders, week)),
      monthEarnings |-> toFixed2(feeOver(o.orders, month))]

\* C22: a second getRealTimeIncome at the same clock reading, with nothing
\* but the first call in between, returns the same totalEarnings,
\* todayEarnings, weekEarnings, monthEarnings, totalWithdrawn,
\* availableBalance and pendingWithdrawals; and the first call leaves the
\* orders and the income document, in memory and in the files, as they are.
C22_RealTimeIncomeIsIdempotent ==
  LET first == getRealTimeIncome(cache, disk)
      second == getRealTimeIncome(first.cache, disk)
  IN /\ second.snapshot = first.snapshot
     /\ getRealTimeIncomeWindows(first.cache, disk, now)
          = getRealTimeIncomeWindows(cache, disk, now)
     /\ second.cache = first.cache
     /\ getAllOrders(first.cache, disk).orders = getAllOrders(cache, disk).orders
     /\ getIncomeData(first.cache, disk).data = IncomeNow

\* a state where a delivery was stamped at the present reading, a
\* withdrawal is pending and the income earned is not nil
C22_Witness ==
  /\ SnapshotNow.pendingWithdrawals > 0
  /\ SnapshotNow.totalEarnings > 0
  /\ getRealTimeIncomeWindows(cache, disk, now).todayEarnings > 0
  /\ getRealTimeIncome(getRealTimeIncome(cache, disk).cache, disk).snapshot
       = SnapshotNow

----------------------------------------------------------------------------
(* The orders service over orders of every status: status updates to any   *)
(* of the five statuses, and the status filter.                            *)

\* the orders file at start-up: three orders of any statuses; a delivered
\* one carries the deliveredAt of its delivery
OrdersOfStatuses(s1, s2, s3) ==
  LET order(id, fee, st) ==
        [orderId |-> id, status |-> st, deliveryFee |-> fee, createdAt |-> 0,
         deliveredAt |-> IF st = "delivered" THEN 0 ELSE NullTime]
  IN [orders |-> << order("ORD001", Cents(2550) + 4, s1),
                    order("ORD002", Dollars(10) + 4, s2),
                    order("ORD003", Dollars(5) + 4, s3) >>]

InitOrders ==
  /\ now = 1
  /\ inflight = <<>>
  /\ cache = [f \in Files |-> NoDoc]
  /\ \E s1 \in OrderStatuses, s2 \in OrderStatuses, s3 \in OrderStatuses :
       disk = [f \in Files |->
                 IF f = OrdersFile THEN OrdersOfStatuses(s1, s2, s3) ELSE NoDoc]

\* ordersService.updateOrderStatus(orderId, newStatus) with any of the five
\* statuses
UpdateOrderToAnyStatus ==
  \E orderId \in OrderIds, newStatus \in OrderStatuses, fsOk \in WriteOutcomes :
    UpdateOrderStatusStep(orderId, newStatus, fsOk)

NextOrders == Tick \/ UpdateOrderToAnyStatus \/ GetOrdersByStatusStep

SpecOrders == InitOrders /\ [][NextOrders]_vars

\* the orderIds of a sequence of orders
idsOf(orders) == {orders[i].orderId : i \in 1 .. Len(orders)}

\* C23: ongoing and completed are disjoint, together they are the orders of
\* 'all', ongoing holds exactly the assigned, picked_up and in_transit orders
\* and completed exactly the delivered and cancelled ones.
C23_OngoingAndCompletedPartitionAll ==
  LET all == getOrdersByStatus(cache, disk, "all").value
      ongoing == getOrdersByStatus(cache, disk, "ongoing").value
      completed == getOrdersByStatus(cache, disk, "completed").value
  IN /\ idsOf(ongoing) \cap idsOf(completed) = {}
     /\ idsOf(ongoing) \cup idsOf(completed) = idsOf(all)
     /\ Len(ongoing) + Len(completed) = Len(all)
     /\ \A i \in 1 .. Len(all) :
          /\ (\E k \in 1 .. Len(ongoing) : ongoing[k] = all[i])
               <=> all[i].status \in {"assigned", "picked_up", "in_transit"}
          /\ (\E k \in 1 .. Len(completed) : completed[k] = all[i])
               <=> all[i].status \in {"delivered", "cancelled"}

\* a state, after a status update, with an in_transit order among the
\* ongoing ones and a cancelled order among the completed ones
C23_Witness ==
  /\ cache[OrdersFile] # NoDoc
  /\ \E i \in 1 .. Len(OrdersNow) : OrdersNow[i].status = "in_transit"
  /\ \E i \in 1 .. Len(OrdersNow) : OrdersNow[i].status = "cancelled"
  /\ Len(getOrdersByStatus(cache, disk, "ongoing").value) > 0
  /\ Len(getOrdersByStatus(cache, disk, "completed").value) > 0

\* C24: in every state reached through updateOrderStatus an order carries
\* a deliveredAt only if its status is delivered.
C24_DeliveredAtOnlyWhenDelivered ==
  \A i \in 1 .. Len(OrdersNow) :
    OrdersNow[i].deliveredAt # NullTime => OrdersNow[i].status = "delivered"

----------------------------------------------------------------------------
(* The status codes of the responses *)

\* OrdersService.getOrderById: the first order with the id, or null
getOrderById(c, d, orderId) ==
  LET o == getAllOrders(c, d)
      i == orderIndexFrom(o.orders, orderId, 1)
  IN [found |-> i # 0,
      value |-> IF i = 0 THEN NoDoc ELSE o.orders[i],
      cache |-> o.cache]

\* GET /api/rider/order/:orderId: the controller's getOrderById
getOrderDetail(c, d, orderId) ==
  LET g == getOrderById(c, d, orderId)
  IN [response |->
        IF ~g.found
          THEN Response(404, errorType(404), "Order not found", NoDoc, TRUE)
          ELSE Response(200, "", "", g.value, TRUE),
      cache |-> g.cache, disk |-> d]

ServerErrors == 500 .. 599

\* C25: validation and insufficient-balance failures are answered 400, an
\* unknown order or withdrawal id 404, and a storage failure (a write that
\* failed, a file that cannot be read) a 5xx status.
C25_StatusReflectsFailureKind ==
  /\ \A a \in BodyAmounts, fsOk \in FaultyWriteOutcomes :
       LET h == postWithdraw(cache, disk, now, a, AccountInfo, fsOk).response
           refused == validateWithdrawalRequest(a) # ""
                        \/ a > SnapshotNow.availableBalance
       IN /\ refused => h.status = 400
          /\ (~refused /\ ~fsOk) => h.status \in ServerErrors
  /\ \A id \in WithdrawalIds, st \in validStatuses,
        fsOk \in FaultyWriteOutcomes :
       LET h == putWithdrawStatus(cache, disk, now, id, st, ProcessingNotes,
                                  fsOk).response
           known == \E i \in 1 .. Len(Withdrawals) :
                      Withdrawals[i].withdrawalId = id
       IN /\ ~known => h.status = 404
          /\ (known /\ ~fsOk) => h.status \in ServerErrors
  /\ \A orderId \in OrderIds :
       LET h == getOrderDetail(cache, disk, orderId).response
           unreadable == cache[OrdersFile] = NoDoc
                           /\ disk[OrdersFile] = Unreadable
       IN /\ (~unreadable /\ \A i \in 1 .. Len(OrdersNow) :
                                OrdersNow[i].orderId # orderId)
               => h.status = 404
          /\ unreadable => h.status \in ServerErrors

----------------------------------------------------------------------------
(* The balance over sequences of calls *)

\* C26: in every state reached by submitWithdrawal, updateWithdrawalStatus
\* and updateOrderStatus calls from a start in which totalWithdrawn is at
\* most totalEarnings, the availableBalance of getRealTimeIncome is not
\* negative.
C26_BalanceNeverNegative ==
  SnapshotNow.availableBalance >= 0

----------------------------------------------------------------------------
(* Frame conditions of the income service *)

\* C27: getWithdrawalRecords, for every status filter, leaves the income
\* document as it is, the order of its withdrawals included, so that a
\* submitWithdrawal after it persists the withdrawals in the order they had
\* with the new one last.
C27_RecordsLeaveDocumentOrder ==
  \A status \in RecordFilters :
    LET g == getWithdrawalRecords(cache, disk, status)
        s == submitWithdrawal(g.cache, disk, now, Dollars(10), AccountInfo, TRUE)
    IN /\ getIncomeData(g.cache, disk).data = IncomeNow
       /\ ~s.threw =>
            s.disk[IncomeFile].withdrawals = Append(Withdrawals, s.value)

\* what later reads of the process show: the records of every filter, the
\* snapshot, and the income document in memory
seenBy(c, d) ==
  [records |-> [status \in RecordFilters |->
                  getWithdrawalRecords(c, d, status).value],
   snapshot |-> getRealTimeIncome(c, d).snapshot,
   income |-> getIncomeData(c, d).data]

\* memory agrees with the file: a cached income document is the one in the
\* file
memoryAgreesWithFile(c, d) ==
  c[IncomeFile] # NoDoc => c[IncomeFile] = d[IncomeFile]

\* C28: when the write of submitWithdrawal or updateWithdrawalStatus fails,
\* later reads show what they showed before the call (no new withdrawal,
\* no change of status, no change of totalWithdrawn) and the cached
\* document is the one in the file.
C28_FailedWriteLeavesStateBefore ==
  memoryAgreesWithFile(cache, disk) =>
    /\ \A a \in Amounts \cup BodyAmounts :
         LET s == submitWithdrawal(cache, disk, now, a, AccountInfo, FALSE)
         IN /\ seenBy(s.cache, s.disk) = seenBy(cache, disk)
            /\ memoryAgreesWithFile(s.cache, s.disk)
    /\ \A id \in WithdrawalIds, st \in validStatuses :
         LET u == updateWithdrawalStatus(cache, disk, now, id, st,
                                         ProcessingNotes, FALSE)
         IN /\ seenBy(u.cache, u.disk) = seenBy(cache, disk)
            /\ memoryAgreesWithFile(u.cache, u.disk)

\* C29: a successful updateWithdrawalStatus changes, of the withdrawal it
\* returns, only status, processedAt and notes, and totalWithdrawn only
\* when the new status is completed; the withdrawal's withdrawalId, amount,
\* requestedAt and accountInfo, every other withdrawal and the number of
\* withdrawals are as before, in memory and in the file.
C29_UpdateChangesOneWithdrawal ==
  \A id \in WithdrawalIds, st \in NewStatuses :
    LET u == updateWithdrawalStatus(cache, disk, now, id, st,
                                    ProcessingNotes, TRUE)
        after == IncomeAfter(u)
    IN u.found =>
         /\ u.disk[IncomeFile] = after
         /\ Len(after.withdrawals) = Len(Withdrawals)
         /\ \E i \in 1 .. Len(Withdrawals) :
              /\ after.withdrawals[i] = u.value
              /\ Withdrawals[i].withdrawalId = id
              /\ u.value = [Withdrawals[i] EXCEPT !.status = u.value.status,
                                                  !.processedAt = u.value.processedAt,
                                                  !.notes = u.value.notes]
              /\ \A j \in 1 .. Len(Withdrawals) :
                   j # i => after.withdrawals[j] = Withdrawals[j]
         /\ st # "completed" => after.totalWithdrawn = TotalWithdrawn
         /\ st = "completed" =>
              after.totalWithdrawn = TotalWithdrawn + u.value.amount

\* a state with two withdrawals, the first pending, at a clock reading
\* after its request: completing the first is carried out and leaves the
\* second as it is
C29_Witness ==
  /\ Len(Withdrawals) = 2
  /\ Withdrawals[1].status = "pending"
  /\ Withdrawals[1].requestedAt < now
  /\ LET u == updateWithdrawalStatus(cache, disk, now,
                                     Withdrawals[1].withdrawalId, "completed",
                                     ProcessingNotes, TRUE)
     IN /\ u.found
        /\ u.value.status = "completed"
        /\ IncomeAfter(u).withdrawals[2] = Withdrawals[2]

----------------------------------------------------------------------------
(* The income service as its callers use it: the endpoints with any status *)
(* in the body, and direct calls of updateWithdrawalStatus with the        *)
(* statuses its contract names (completed, rejected).                      *)

ResolveWithdrawal ==
  \E id \in WithdrawalIds, newStatus \in validStatuses, fsOk \in WriteOutcomes :
    /\ newStatus = "completed" => TotalWithdrawn <= Dollars(MaxWithdrawnUnits)
    /\ UpdateWithdrawalStatusStep(id, newStatus, fsOk)

NextResolve ==
  \/ Tick
  \/ SubmitWithdrawal
  \/ PostWithdraw
  \/ ResolveWithdrawal
  \/ PutWithdrawStatus
  \/ UpdateOrderStatus
  \/ GetRealTimeIncome
  \/ GetWithdrawalRecords

SpecResolve == Init /\ [][NextResolve]_vars

====
